---- MODULE Spec2Model ----
(***************************************************************************)
(* A model of socks.py (SocksiPy 1.03 with proxy chaining): the module     *)
(* level default proxy, socksocket objects, setproxy, and connect() with   *)
(* its three negotiators (SOCKS5, SOCKS4/4A, HTTP CONNECT).                *)
(*                                                                         *)
(* The file is Python 2 source (print statements, "except Exception, e"),  *)
(* so str is a byte string and chr(n).encode() is the one byte n for       *)
(* n < 128 and raises UnicodeDecodeError for n >= 128.                     *)
(*                                                                         *)
(* Byte strings are sequences of byte values; text is its ASCII bytes.     *)
(* A Python scalar is a record [t, v]: t its type, v a sequence of         *)
(* integers (the bytes of a str, the one number of an int, <<>> for None). *)
(***************************************************************************)
EXTENDS Integers, Sequences, FiniteSets, TLC

(***************************************************************************)
(* Bounds of the model.                                                    *)
(***************************************************************************)
\* Longest proxy chain setproxy builds under Spec.
MaxChain == 3
\* Longest chain (default or per socket) under SpecShared.
MaxSharedChain == 2
MaxCount == 4
MaxSent == 4

(***************************************************************************)
(* Python values.                                                          *)
(***************************************************************************)
PyNone == [t |-> "none", v |-> <<>>]
PyStr(s) == [t |-> "str", v |-> s]
PyInt(n) == [t |-> "int", v |-> <<n>>]
IntOf(x) == x.v[1]

\* Truthiness of a scalar, as "x or y" and "if x" use it.
Truthy(x) ==
  CASE x.t = "none" -> FALSE
    [] x.t = "int" -> IntOf(x) # 0
    [] OTHER -> x.v # <<>>

(***************************************************************************)
(* Module constants (socks.py lines 52-63).                                *)
(***************************************************************************)
PROXY_TYPE_NONE == 0
PROXY_TYPE_SOCKS4 == 1
PROXY_TYPE_SOCKS5 == 2
PROXY_TYPE_HTTP == 3

PROXY_DEFAULTS ==
  (PROXY_TYPE_NONE :> 0) @@ (PROXY_TYPE_SOCKS4 :> 1080) @@
  (PROXY_TYPE_SOCKS5 :> 1080) @@ (PROXY_TYPE_HTTP :> 8080)

\* "proxy[P_TYPE] or PROXY_TYPE_NONE" (lines 403, 415).
TypeOrNone(ty) == IF Truthy(ty) THEN IntOf(ty) ELSE PROXY_TYPE_NONE

(***************************************************************************)
(* ASCII text used on the wire.                                            *)
(***************************************************************************)
Dot == 46
Colon == 58
Space == 32
CR == 13
LF == 10
Zero == 48
CRLFCRLF == <<CR, LF, CR, LF>>
TxtConnect == <<67, 79, 78, 78, 69, 67, 84, 32>>             \* "CONNECT "
TxtHttp11Line == <<32, 72, 84, 84, 80, 47, 49, 46, 49, 13, 10>> \* " HTTP/1.1\r\n"
TxtHost == <<72, 111, 115, 116, 58, 32>>                     \* "Host: "
TxtHttp11 == <<72, 84, 84, 80, 47, 49, 46, 49>>              \* "HTTP/1.1"
TxtHttp10 == <<72, 84, 84, 80, 47, 49, 46, 48>>              \* "HTTP/1.0"
TxtNone == <<78, 111, 110, 101>>                             \* "None"

(***************************************************************************)
(* Sequence helpers.                                                       *)
(***************************************************************************)
Min(a, b) == IF a < b THEN a ELSE b
Take(s, n) == SubSeq(s, 1, Min(n, Len(s)))
Drop(s, n) == SubSeq(s, Min(n, Len(s)) + 1, Len(s))
IsDigit(c) == c >= Zero /\ c <= Zero + 9

\* The index of the first element of s equal to c, or 0.
RECURSIVE IndexFrom(_, _, _)
IndexFrom(s, c, i) ==
  IF i > Len(s) THEN 0
  ELSE IF s[i] = c THEN i ELSE IndexFrom(s, c, i + 1)

\* str.split(sep): every sep splits; empty parts are kept.
RECURSIVE SplitAll(_, _)
SplitAll(s, c) ==
  LET i == IndexFrom(s, c, 1) IN
    IF i = 0 THEN <<s>>
    ELSE <<SubSeq(s, 1, i - 1)>> \o SplitAll(SubSeq(s, i + 1, Len(s)), c)

\* str.split(sep, maxsplit).
RECURSIVE SplitMax(_, _, _)
SplitMax(s, c, n) ==
  LET i == IndexFrom(s, c, 1) IN
    IF n = 0 \/ i = 0 THEN <<s>>
    ELSE <<SubSeq(s, 1, i - 1)>> \o SplitMax(SubSeq(s, i + 1, Len(s)), c, n - 1)

\* The number a string of decimal digits denotes.
RECURSIVE DecVal(_)
DecVal(s) ==
  IF s = <<>> THEN 0
  ELSE 10 * DecVal(SubSeq(s, 1, Len(s) - 1)) + (s[Len(s)] - Zero)

AllDigits(s) == s # <<>> /\ \A i \in 1..Len(s) : IsDigit(s[i])

\* str(n) of a non-negative integer.
RECURSIVE Dec(_)
Dec(n) == IF n < 10 THEN <<Zero + n>> ELSE Dec(n \div 10) \o <<Zero + (n % 10)>>

\* str(x) of a scalar, as the HTTP negotiator formats the port (line 365).
StrOf(x) ==
  CASE x.t = "int" -> Dec(IntOf(x))
    [] x.t = "none" -> TxtNone
    [] OTHER -> x.v

(***************************************************************************)
(* socket.inet_aton / socket.inet_ntoa / struct.pack(">H") / gethostbyname *)
(***************************************************************************)
\* socket.inet_aton on a str in dotted-quad decimal form (the shorthand and
\* octal/hex forms of inet_aton are outside the hosts the model draws).
inet_aton(s) ==
  LET parts == SplitAll(s, Dot)
      good == /\ Len(parts) = 4
              /\ \A i \in 1..4 : /\ AllDigits(parts[i])
                                 /\ Len(parts[i]) <= 3
                                 /\ DecVal(parts[i]) <= 255
  IN IF good
       THEN [ok |-> TRUE, b |-> [i \in 1..4 |-> DecVal(parts[i])]]
       ELSE [ok |-> FALSE, b |-> <<>>]

inet_ntoa(b) ==
  Dec(b[1]) \o <<Dot>> \o Dec(b[2]) \o <<Dot>> \o Dec(b[3]) \o <<Dot>> \o Dec(b[4])

\* struct.pack(">H", x): two big-endian bytes, struct.error for a value that
\* is no integer in 0..65535 (Python 2.7).
PackH(x) ==
  IF x.t = "int" /\ IntOf(x) >= 0 /\ IntOf(x) <= 65535
    THEN [ok |-> TRUE, b |-> <<IntOf(x) \div 256, IntOf(x) % 256>>]
    ELSE [ok |-> FALSE, b |-> <<>>]

\* struct.unpack(">H", b)[0]
UnpackH(b) == b[1] * 256 + b[2]

\* Host names of the model and what the resolver answers for them.
HostIP1 == <<49, 46, 50, 46, 51, 46, 52>>      \* "1.2.3.4"
HostIP2 == <<53, 46, 54, 46, 55, 46, 56>>      \* "5.6.7.8"
HostName == <<97, 98>>                          \* "ab"
HostNameAddr == <<57, 46, 57, 46, 57, 46, 57>> \* "9.9.9.9", the address of "ab"
HostAny == <<48, 46, 48, 46, 48, 46, 48>>      \* "0.0.0.0"

\* socket.gethostbyname: a dotted quad comes back unchanged, "" gives
\* "0.0.0.0", a known name its address, anything else socket.gaierror.
gethostbyname(h) ==
  CASE inet_aton(h).ok -> [ok |-> TRUE, a |-> h]
    [] h = HostName -> [ok |-> TRUE, a |-> HostNameAddr]
    [] h = <<>> -> [ok |-> TRUE, a |-> HostAny]
    [] OTHER -> [ok |-> FALSE, a |-> <<>>]

(***************************************************************************)
(* The receiving side of a socket.  What the peer has sent and the client  *)
(* has not read yet is a sequence of chunks (one per arriving segment);    *)
(* closed says the peer has closed its side after them.                    *)
(***************************************************************************)
\* socket.recv(k): up to k bytes of the first chunk; "" once the peer has
\* closed and nothing is left; blocks while nothing has arrived yet.
recv(st, k) ==
  IF k = 0 THEN [blocked |-> FALSE, data |-> <<>>, st |-> st]
  ELSE IF st.chunks = <<>>
    THEN [blocked |-> ~st.closed, data |-> <<>>, st |-> st]
    ELSE LET c == Head(st.chunks)
             rest == Drop(c, k)
         IN [blocked |-> FALSE,
             data |-> Take(c, k),
             st |-> [st EXCEPT !.chunks =
                       IF rest = <<>> THEN Tail(st.chunks)
                       ELSE <<rest>> \o Tail(st.chunks)]]

\* Missing gone wrong: every recv asks for the whole count again.
MissingWhole(count, data) == count

\* Line 164: what the next recv is asked for.
Missing(count, data) == count - Len(data)

\* The while loop of __recvall (lines 163-166), data being what was read so far.
RECURSIVE recvall_loop(_, _, _)
recvall_loop(st, count, data) ==
  IF Len(data) >= count THEN [res |-> "ok", data |-> data, st |-> st]
  ELSE LET r == recv(st, Missing(count, data)) IN
    IF r.blocked THEN [res |-> "blocked", data |-> data, st |-> st]
    ELSE IF r.data = <<>> THEN [res |-> "short", data |-> data, st |-> r.st]
    ELSE recvall_loop(r.st, count, data \o r.data)

\* socksocket.__recvall(count) (lines 157-167).
recvall(st, count) ==
  LET r == recv(st, count) IN
    IF r.blocked THEN [res |-> "blocked", data |-> <<>>, st |-> st]
    ELSE recvall_loop(r.st, count, r.data)

\* The bytes of a stream, chunk boundaries forgotten.
RECURSIVE Flatten(_)
Flatten(chunks) ==
  IF chunks = <<>> THEN <<>> ELSE Head(chunks) \o Flatten(Tail(chunks))

\* What a read finds: the bytes left unread so far, then what the peer sends now.
Stream(rc, script) ==
  [chunks |-> (IF rc.buf = <<>> THEN <<>> ELSE <<rc.buf>>) \o script.chunks,
   closed |-> rc.closed \/ script.eof]

\* The receiving side after a read that left stream st.
Unread(st) == [buf |-> Flatten(st.chunks), closed |-> st.closed]

Script(chunks, eof) == [chunks |-> chunks, eof |-> eof]

\* A peer that has closed sends nothing more.
Offered(rc, scripts) == IF rc.closed THEN {Script(<<>>, TRUE)} ELSE scripts

(***************************************************************************)
(* Proxy steps: the 6-tuples setproxy stores (lines 71-76, 188-190).       *)
(***************************************************************************)
Step(ty, host, port, rdns, user, pass) ==
  [type |-> ty, host |-> host, port |-> port, rdns |-> rdns,
   user |-> user, pass |-> pass]

\* The entry connect() appends for the destination (line 407): a 3-element
\* list, so only type, host and port exist.
Sentinel(host, port) ==
  Step(PyInt(PROXY_TYPE_NONE), host, port, FALSE, PyNone, PyNone)

User == <<117>>   \* "u"
Pass == <<112>>   \* "p"
ProxyPort == PyInt(1081)
\* A proxy type that is no key of PROXY_DEFAULTS.
BadType == PyInt(9)

\* The proxy steps setproxy is called with.
Steps ==
  { Step(PyInt(PROXY_TYPE_SOCKS5), PyStr(HostIP1), ProxyPort, TRUE, PyNone, PyNone),
    Step(PyInt(PROXY_TYPE_SOCKS5), PyStr(HostName), PyNone, FALSE, PyStr(User), PyStr(Pass)),
    Step(PyInt(PROXY_TYPE_SOCKS4), PyStr(HostIP2), PyNone, TRUE, PyNone, PyNone),
    Step(PyInt(PROXY_TYPE_SOCKS4), PyStr(HostName), ProxyPort, FALSE, PyStr(User), PyNone),
    Step(PyInt(PROXY_TYPE_HTTP), PyStr(HostIP1), PyNone, TRUE, PyNone, PyNone),
    Step(PyInt(PROXY_TYPE_HTTP), PyStr(HostName), ProxyPort, FALSE, PyNone, PyNone),
    Step(PyNone, PyStr(HostName), PyNone, TRUE, PyNone, PyNone),
    Step(BadType, PyStr(HostIP2), ProxyPort, TRUE, PyNone, PyNone) }

\* The steps of SpecShared: two SOCKS4 proxies, one exchange each.
SharedSteps ==
  { Step(PyInt(PROXY_TYPE_SOCKS4), PyStr(HostIP1), ProxyPort, TRUE, PyNone, PyNone),
    Step(PyInt(PROXY_TYPE_SOCKS4), PyStr(HostIP2), ProxyPort, TRUE, PyNone, PyNone) }

\* The destpair arguments connect() is called with.
DestPair(host, port) == [shape |-> "tuple2", host |-> host, port |-> port]
ShortTuple == [shape |-> "tuple1", host |-> PyNone, port |-> PyNone]
WebPort == PyInt(80)
TlsPort == PyInt(443)
\* An int that is no 16-bit port.
BigPort == PyInt(70000)

Dests ==
  { DestPair(PyStr(HostIP1), WebPort),
    DestPair(PyStr(HostName), TlsPort),
    DestPair(PyStr(<<>>), WebPort),
    DestPair(PyNone, WebPort),
    DestPair(PyStr(HostName), PyStr(<<56, 48>>)),
    DestPair(PyStr(HostName), BigPort),
    ShortTuple }

SharedDests == { DestPair(PyStr(HostName), WebPort) }

(***************************************************************************)
(* State.                                                                  *)
(***************************************************************************)
Socks == {1, 2}
\* List objects: one per socket and the default chain.
ListIds == 1..(Cardinality(Socks) + 1)

VARIABLES
  defaultproxy, \* _defaultproxy: 0 for None, else the list object it names
  heap,         \* the contents of each list object
  pc,           \* per socket: where its thread is
  proxyref,     \* self.__proxy: the list object it names (0 before __init__)
  sockname,     \* self.__proxysockname
  peername,     \* self.__proxypeername
  sockstate,    \* the underlying socket: "fresh", "connected", "closed"
  dest,         \* the destpair connect() was called with
  frame,        \* the locals of connect() and of the negotiator it runs
  err,          \* the exception connect() raised
  trace,        \* what the socket did, in order: TCP connects, negotiator
                \* calls, resolver calls, bytes sent, replies read
  rcv,          \* the receiving side: bytes unread, peer closed
  call          \* one __recvall call followed recv by recv

vars == <<defaultproxy, heap, pc, proxyref, sockname, peername, sockstate,
          dest, frame, err, trace, rcv, call>>

NoName == [set |-> FALSE, addr |-> PyNone, port |-> PyNone]
Name(addr, port) == [set |-> TRUE, addr |-> addr, port |-> port]
NoErr == [cls |-> "", code |-> 0, msg |-> <<>>]
NoDest == [shape |-> "", host |-> PyNone, port |-> PyNone]
NoStep == Step(PyNone, PyNone, PyNone, FALSE, PyNone, PyNone)
NoFrame ==
  [chain |-> <<>>, first |-> FALSE, proxy |-> NoStep,
   destaddr |-> PyNone, destport |-> PyNone,
   ipset |-> FALSE, ipaddr |-> <<>>, rmtrslv |-> FALSE, addr |-> <<>>]

Ev(op, kind, host, port, rdns, data) ==
  [op |-> op, kind |-> kind, host |-> host, port |-> port, rdns |-> rdns,
   data |-> data]
EvTcp(host, port) == Ev("tcp", PROXY_TYPE_NONE, host, port, FALSE, <<>>)
EvNeg(kind, host, port, rdns) == Ev("neg", kind, host, port, rdns, <<>>)
EvDns(kind, name) == Ev("dns", kind, PyStr(name), PyNone, FALSE, <<>>)
EvSend(kind, what, data) == Ev(what, kind, PyNone, PyNone, FALSE, data)
EvRecv(kind, data) == Ev("recv", kind, PyNone, PyNone, FALSE, data)

\* No __recvall call is being followed.
NoCall ==
  [pc |-> "off", count |-> 0, peer |-> [chunks |-> <<>>, closed |-> FALSE],
   st |-> [chunks |-> <<>>, closed |-> FALSE], data |-> <<>>, asked |-> <<>>]

\* The module is loaded and no socket exists yet.
Loaded ==
  /\ defaultproxy = 0
  /\ heap = [i \in ListIds |-> <<>>]
  /\ pc = [s \in Socks |-> "new"]
  /\ proxyref = [s \in Socks |-> 0]
  /\ sockname = [s \in Socks |-> NoName]
  /\ peername = [s \in Socks |-> NoName]
  /\ sockstate = [s \in Socks |-> "fresh"]
  /\ dest = [s \in Socks |-> NoDest]
  /\ frame = [s \in Socks |-> NoFrame]
  /\ err = [s \in Socks |-> NoErr]
  /\ trace = [s \in Socks |-> <<>>]
  /\ rcv = [s \in Socks |-> [buf |-> <<>>, closed |-> FALSE]]

Init == Loaded /\ call = NoCall

(***************************************************************************)
(* List objects.                                                           *)
(***************************************************************************)
\* The list objects some name still reaches.
Live(dp, refs) == ({dp} \cup {refs[s] : s \in Socks}) \ {0}

\* A fresh list object: one no name reaches (the one numbered like the
\* name that will hold it, when that is free).
NewList(own, live) ==
  IF own \notin live THEN own
  ELSE CHOOSE i \in ListIds \ live : \A j \in ListIds \ live : i <= j

\* The number of the default chain's own list object.
DefaultList == Cardinality(Socks) + 1

\* Unreachable list objects are dropped.
Collect(h, live) == [i \in ListIds |-> IF i \in live THEN h[i] ELSE <<>>]

(***************************************************************************)
(* setdefaultproxy (lines 118-127).                                        *)
(***************************************************************************)
\* The list _defaultproxy names afterwards and the heap: appended in place
\* when append is set and the default is a non-empty list, else a new list.
DefaultAfter(dp, h, refs, step, append) ==
  IF append /\ dp # 0 /\ h[dp] # <<>>
    THEN [ref |-> dp, heap |-> [h EXCEPT ![dp] = Append(@, step)]]
    ELSE LET n == NewList(DefaultList, Live(0, refs))
         IN [ref |-> n, heap |-> [h EXCEPT ![n] = <<step>>]]

setdefaultproxy(step, append, cap) ==
  /\ append /\ defaultproxy # 0 => Len(heap[defaultproxy]) < cap
  /\ LET r == DefaultAfter(defaultproxy, heap, proxyref, step, append) IN
       /\ defaultproxy' = r.ref
       /\ heap' = Collect(r.heap, Live(r.ref, proxyref))
  /\ UNCHANGED <<call, pc, proxyref, sockname, peername, sockstate, dest, frame,
                 err, trace, rcv>>

(***************************************************************************)
(* socksocket.__init__ (lines 148-155).                                    *)
(***************************************************************************)
\* InitProxy gone wrong: the socket names the default list itself instead
\* of a copy of it.
InitProxyAlias(s, dp, h, refs) ==
  IF dp # 0 THEN [ref |-> dp, heap |-> h]
  ELSE LET n == NewList(s, Live(dp, refs))
       IN [ref |-> n, heap |-> [h EXCEPT ![n] = <<>>]]

\* self.__proxy after __init__: a copy of the default chain, or a new empty
\* list when there is no default.
InitProxy(s, dp, h, refs) ==
  LET n == NewList(s, Live(dp, refs))
  IN [ref |-> n, heap |-> [h EXCEPT ![n] = IF dp # 0 THEN h[dp] ELSE <<>>]]

Construct(s) ==
  /\ pc[s] = "new"
  /\ LET r == InitProxy(s, defaultproxy, heap, proxyref) IN
       /\ proxyref' = [proxyref EXCEPT ![s] = r.ref]
       /\ heap' = r.heap
  /\ sockname' = [sockname EXCEPT ![s] = NoName]
  /\ peername' = [peername EXCEPT ![s] = NoName]
  /\ pc' = [pc EXCEPT ![s] = "idle"]
  /\ UNCHANGED <<call, defaultproxy, sockstate, dest, frame, err, trace, rcv>>

(***************************************************************************)
(* socksocket.setproxy (lines 169-190).                                    *)
(***************************************************************************)
\* ProxyAfter gone wrong: append is ignored, the chain is always replaced.
ProxyAfterReplace(s, dp, h, refs, step, append) ==
  LET n == NewList(s, Live(dp, [refs EXCEPT ![s] = 0]))
  IN [ref |-> n, heap |-> [h EXCEPT ![n] = <<step>>]]

\* self.__proxy after setproxy and the heap: appended in place when append
\* is set and the chain is non-empty, else replaced by a new one-step list.
ProxyAfter(s, dp, h, refs, step, append) ==
  IF append /\ h[refs[s]] # <<>>
    THEN [ref |-> refs[s], heap |-> [h EXCEPT ![refs[s]] = Append(@, step)]]
    ELSE LET n == NewList(s, Live(dp, [refs EXCEPT ![s] = 0]))
         IN [ref |-> n, heap |-> [h EXCEPT ![n] = <<step>>]]

setproxy(s, step, append, cap) ==
  /\ pc[s] = "idle"
  /\ append => Len(heap[proxyref[s]]) < cap
  /\ LET r == ProxyAfter(s, defaultproxy, heap, proxyref, step, append)
         refs == [proxyref EXCEPT ![s] = r.ref]
     IN /\ proxyref' = refs
        /\ heap' = Collect(r.heap, Live(defaultproxy, refs))
  /\ UNCHANGED <<call, defaultproxy, pc, sockname, peername, sockstate, dest,
                 frame, err, trace, rcv>>

(***************************************************************************)
(* One socket's side of the state, as connect() and the negotiators        *)
(* transform it.                                                           *)
(***************************************************************************)
View(s) ==
  [pc |-> pc[s], err |-> err[s], sock |-> sockstate[s], trace |-> trace[s],
   rcv |-> rcv[s], frame |-> frame[s], sockname |-> sockname[s],
   peername |-> peername[s]]

\* The socket's state becomes v; a read that would block is no step.
Becomes(s, v) ==
  /\ v.pc # "blocked"
  /\ pc' = [pc EXCEPT ![s] = v.pc]
  /\ err' = [err EXCEPT ![s] = v.err]
  /\ sockstate' = [sockstate EXCEPT ![s] = v.sock]
  /\ trace' = [trace EXCEPT ![s] = v.trace]
  /\ rcv' = [rcv EXCEPT ![s] = v.rcv]
  /\ frame' = [frame EXCEPT ![s] = v.frame]
  /\ sockname' = [sockname EXCEPT ![s] = v.sockname]
  /\ peername' = [peername EXCEPT ![s] = v.peername]

Log(v, ev) == [v EXCEPT !.trace = Append(@, ev)]
\* raise cls((code, ...)): the exception leaves connect().
Raise(v, cls, code) ==
  [v EXCEPT !.pc = "raised", !.err = [cls |-> cls, code |-> code, msg |-> <<>>]]
RaiseMsg(v, cls, code, msg) ==
  [v EXCEPT !.pc = "raised", !.err = [cls |-> cls, code |-> code, msg |-> msg]]
\* self.close()
Close(v) == [v EXCEPT !.sock = "closed"]
Blocked(v) == [v EXCEPT !.pc = "blocked"]
\* What a read consumed is logged and leaves the receiving side.
Read(v, kind, data, st) ==
  [Log(v, EvRecv(kind, data)) EXCEPT !.rcv = Unread(st)]

(***************************************************************************)
(* __negotiatesocks5 (lines 192-286).                                      *)
(***************************************************************************)
\* Socks5Offer gone wrong: user/password is never offered.
Socks5OfferNoAuth(proxy) == <<5, 1, 0>>

\* The method offer (lines 197-205).
Socks5Offer(proxy) ==
  IF proxy.user.t # "none" /\ proxy.pass.t # "none"
    THEN <<5, 2, 0, 2>>
    ELSE <<5, 1, 0>>

\* Socks5Request gone wrong: remote_dns is looked at before the literal test,
\* so a literal is sent as a name when the proxy resolves.
Socks5RequestRdnsFirst(destaddr, destport, rdns) ==
  LET a == inet_aton(destaddr.v)
      g == gethostbyname(destaddr.v)
      port == PackH(destport)
      none == [ok |-> FALSE, cls |-> "", dns |-> FALSE, data |-> <<>>,
               ipset |-> FALSE, ipaddr |-> <<>>]
      head == <<5, 1, 0>>
  IN IF destaddr.t # "str" THEN [none EXCEPT !.cls = "TypeError"]
     ELSE IF rdns THEN
       IF ~port.ok THEN [none EXCEPT !.cls = "struct.error"]
       ELSE [none EXCEPT !.ok = TRUE,
                         !.data = head \o <<3, Len(destaddr.v)>> \o destaddr.v
                                  \o port.b]
     ELSE IF a.ok THEN
       IF ~port.ok THEN [none EXCEPT !.cls = "struct.error"]
       ELSE [none EXCEPT !.ok = TRUE, !.ipset = TRUE, !.ipaddr = a.b,
                         !.data = head \o <<1>> \o a.b \o port.b]
     ELSE IF ~g.ok THEN [none EXCEPT !.cls = "socket.gaierror", !.dns = TRUE]
     ELSE IF ~port.ok THEN [none EXCEPT !.cls = "struct.error", !.dns = TRUE]
     ELSE [none EXCEPT !.ok = TRUE, !.dns = TRUE, !.ipset = TRUE,
                       !.ipaddr = inet_aton(g.a).b,
                       !.data = head \o <<1>> \o inet_aton(g.a).b \o port.b]

\* The CONNECT request (lines 240-257): the bytes, the ipaddr local (ipset
\* FALSE for None), whether the resolver was called, or the exception.
Socks5Request(destaddr, destport, rdns) ==
  LET a == inet_aton(destaddr.v)
      g == gethostbyname(destaddr.v)
      port == PackH(destport)
      none == [ok |-> FALSE, cls |-> "", dns |-> FALSE, data |-> <<>>,
               ipset |-> FALSE, ipaddr |-> <<>>]
      head == <<5, 1, 0>>
  IN IF destaddr.t # "str" THEN [none EXCEPT !.cls = "TypeError"]
     ELSE IF a.ok THEN
       IF ~port.ok THEN [none EXCEPT !.cls = "struct.error"]
       ELSE [none EXCEPT !.ok = TRUE, !.ipset = TRUE, !.ipaddr = a.b,
                         !.data = head \o <<1>> \o a.b \o port.b]
     ELSE IF rdns THEN
       IF Len(destaddr.v) > 255 THEN [none EXCEPT !.cls = "ValueError"]
       ELSE IF ~port.ok THEN [none EXCEPT !.cls = "struct.error"]
       ELSE [none EXCEPT !.ok = TRUE,
                         !.data = head \o <<3, Len(destaddr.v)>> \o destaddr.v
                                  \o port.b]
     ELSE IF ~g.ok THEN [none EXCEPT !.cls = "socket.gaierror", !.dns = TRUE]
     ELSE IF ~port.ok THEN [none EXCEPT !.cls = "struct.error", !.dns = TRUE]
     ELSE [none EXCEPT !.ok = TRUE, !.dns = TRUE, !.ipset = TRUE,
                       !.ipaddr = inet_aton(g.a).b,
                       !.data = head \o <<1>> \o inet_aton(g.a).b \o port.b]

\* Lines 239-258: build the request and send it.
Socks5SendRequest(v) ==
  LET f == v.frame
      r == Socks5Request(f.destaddr, f.destport, f.proxy.rdns)
      v1 == IF r.dns THEN Log(v, EvDns(PROXY_TYPE_SOCKS5, f.destaddr.v)) ELSE v
  IN IF ~r.ok THEN Raise(v1, r.cls, 0)
     ELSE [Log(v1, EvSend(PROXY_TYPE_SOCKS5, "req", r.data))
             EXCEPT !.pc = "s5_reply", !.frame.ipset = r.ipset,
                    !.frame.ipaddr = r.ipaddr]

\* Lines 197-205: entry of the negotiator, up to its first read.
Socks5Begin(v) ==
  [Log(v, EvSend(PROXY_TYPE_SOCKS5, "offer", Socks5Offer(v.frame.proxy)))
     EXCEPT !.pc = "s5_method"]

\* Lines 208-238, then 239-258 when no authentication is needed.
Socks5Method(v, script) ==
  LET r == recvall(Stream(v.rcv, script), 2)
      v1 == Read(v, PROXY_TYPE_SOCKS5, r.data, r.st)
      p == v.frame.proxy
  IN CASE r.res = "blocked" -> Blocked(v)
       [] r.res = "short" -> Raise(v1, "GeneralProxyError", 0)
       [] r.res = "ok" /\ r.data[1] # 5 -> Raise(Close(v1), "GeneralProxyError", 1)
       [] r.res = "ok" /\ r.data[1] = 5 /\ r.data[2] = 0 -> Socks5SendRequest(v1)
       [] r.res = "ok" /\ r.data[1] = 5 /\ r.data[2] = 2 ->
            \* len(None) raises before anything is sent (line 220)
            IF p.user.t = "none" \/ p.pass.t = "none"
              THEN Raise(v1, "TypeError", 0)
              ELSE [Log(v1, EvSend(PROXY_TYPE_SOCKS5, "auth",
                                   <<1, Len(p.user.v)>> \o p.user.v
                                   \o <<Len(p.pass.v)>> \o p.pass.v))
                      EXCEPT !.pc = "s5_auth"]
       [] OTHER ->
            \* line 235 evaluates chr(0xFF).encode(), which raises in
            \* Python 2 whatever the method byte is
            Raise(Close(v1), "UnicodeDecodeError", 0)

\* Socks5Auth gone wrong: the status byte of the auth reply is not checked.
Socks5AuthUnchecked(v, script) ==
  LET r == recvall(Stream(v.rcv, script), 2)
      v1 == Read(v, PROXY_TYPE_SOCKS5, r.data, r.st)
  IN CASE r.res = "blocked" -> Blocked(v)
       [] r.res = "short" -> Raise(v1, "GeneralProxyError", 0)
       [] r.res = "ok" /\ r.data[1] # 1 -> Raise(Close(v1), "GeneralProxyError", 1)
       [] OTHER -> Socks5SendRequest(v1)

\* Lines 222-231, then 239-258.
Socks5Auth(v, script) ==
  LET r == recvall(Stream(v.rcv, script), 2)
      v1 == Read(v, PROXY_TYPE_SOCKS5, r.data, r.st)
  IN CASE r.res = "blocked" -> Blocked(v)
       [] r.res = "short" -> Raise(v1, "GeneralProxyError", 0)
       [] r.res = "ok" /\ r.data[1] # 1 -> Raise(Close(v1), "GeneralProxyError", 1)
       [] r.res = "ok" /\ r.data[1] = 1 /\ r.data[2] # 0 ->
            Raise(Close(v1), "Socks5AuthError", 3)
       [] OTHER -> Socks5SendRequest(v1)

\* Lines 282-286: the addresses a successful SOCKS5 negotiation records.
Socks5Names(v, boundaddr, boundport) ==
  [v EXCEPT !.sockname = Name(PyStr(boundaddr), PyInt(boundport)),
            !.peername = IF v.frame.ipset
                           THEN Name(PyStr(inet_ntoa(v.frame.ipaddr)), v.frame.destport)
                           ELSE Name(v.frame.destaddr, v.frame.destport)]

\* Lines 281-286 after the bound address was read from stream st.
Socks5Finish(v, sofar, boundaddr, st) ==
  LET r == recvall(st, 2)
      v1 == Read(v, PROXY_TYPE_SOCKS5, sofar \o r.data, r.st)
  IN CASE r.res = "blocked" -> Blocked(v)
       [] r.res = "short" -> Raise(v1, "GeneralProxyError", 0)
       [] OTHER -> [Socks5Names(v1, boundaddr, UnpackH(r.data)) EXCEPT !.pc = "loop"]

\* Socks5ErrorCode gone wrong: the proxy's status is passed on unmapped.
Socks5ErrorCodeRaw(status) == status

\* Lines 268-271: the code of the Socks5Error for a non-zero status.
Socks5ErrorCode(status) == IF status <= 8 THEN status ELSE 9

\* Lines 260-286.
Socks5Reply(v, script) ==
  LET h == recvall(Stream(v.rcv, script), 4)
      vh == Read(v, PROXY_TYPE_SOCKS5, h.data, h.st)
      a4 == recvall(h.st, 4)
      l == recv(h.st, 1)
      an == recvall(l.st, IF l.data = <<>> THEN 0 ELSE l.data[1])
  IN CASE h.res = "blocked" -> Blocked(v)
       [] h.res = "short" -> Raise(vh, "GeneralProxyError", 0)
       [] h.res = "ok" /\ h.data[1] # 5 -> Raise(Close(vh), "GeneralProxyError", 1)
       [] h.res = "ok" /\ h.data[1] = 5 /\ h.data[2] # 0 ->
            Raise(Close(vh), "Socks5Error", Socks5ErrorCode(h.data[2]))
       [] h.res = "ok" /\ h.data[1] = 5 /\ h.data[2] = 0 /\ h.data[4] = 1 ->
            CASE a4.res = "blocked" -> Blocked(v)
              [] a4.res = "short" ->
                   Raise(Read(v, PROXY_TYPE_SOCKS5, h.data \o a4.data, a4.st),
                         "GeneralProxyError", 0)
              [] OTHER -> Socks5Finish(v, h.data \o a4.data, a4.data, a4.st)
       [] h.res = "ok" /\ h.data[1] = 5 /\ h.data[2] = 0 /\ h.data[4] = 3 ->
            CASE l.blocked -> Blocked(v)
              [] ~l.blocked /\ l.data = <<>> ->
                   \* ord("") (line 277)
                   Raise(vh, "TypeError", 0)
              [] ~l.blocked /\ l.data # <<>> /\ an.res = "blocked" -> Blocked(v)
              [] ~l.blocked /\ l.data # <<>> /\ an.res = "short" ->
                   Raise(Read(v, PROXY_TYPE_SOCKS5,
                              h.data \o l.data \o an.data, an.st),
                         "GeneralProxyError", 0)
              [] OTHER -> Socks5Finish(v, h.data \o l.data \o an.data, an.data, an.st)
       [] OTHER -> Raise(Close(vh), "GeneralProxyError", 1)

(***************************************************************************)
(* __negotiatesocks4 (lines 307-354).                                      *)
(***************************************************************************)
\* The request (lines 312-332): the bytes, the ipaddr and rmtrslv locals,
\* whether the resolver was called, or the exception.
Socks4Request(destaddr, destport, proxy) ==
  LET a == inet_aton(destaddr.v)
      g == gethostbyname(destaddr.v)
      port == PackH(destport)
      none == [ok |-> FALSE, cls |-> "", dns |-> FALSE, data |-> <<>>,
               ipaddr |-> <<>>, rmtrslv |-> FALSE]
      local == ~a.ok /\ ~proxy.rdns
      ip == IF a.ok THEN a.b
            ELSE IF proxy.rdns THEN <<0, 0, 0, 1>>
            ELSE inet_aton(g.a).b
      rmt == ~a.ok /\ proxy.rdns
      userid == IF proxy.user.t # "none" THEN proxy.user.v ELSE <<>>
  IN IF destaddr.t # "str" THEN [none EXCEPT !.cls = "TypeError"]
     ELSE IF local /\ ~g.ok THEN [none EXCEPT !.cls = "socket.gaierror", !.dns = TRUE]
     ELSE IF ~port.ok THEN [none EXCEPT !.cls = "struct.error", !.dns = local]
     ELSE [none EXCEPT !.ok = TRUE, !.dns = local, !.ipaddr = ip, !.rmtrslv = rmt,
                       !.data = <<4, 1>> \o port.b \o ip \o userid \o <<0>>
                                \o (IF rmt THEN destaddr.v \o <<0>> ELSE <<>>)]

\* Lines 312-333: entry of the negotiator, up to its read.
Socks4Begin(v) ==
  LET f == v.frame
      r == Socks4Request(f.destaddr, f.destport, f.proxy)
      v1 == IF r.dns THEN Log(v, EvDns(PROXY_TYPE_SOCKS4, f.destaddr.v)) ELSE v
  IN IF ~r.ok THEN Raise(v1, r.cls, 0)
     ELSE [Log(v1, EvSend(PROXY_TYPE_SOCKS4, "req", r.data))
             EXCEPT !.pc = "s4_reply", !.frame.ipaddr = r.ipaddr,
                    !.frame.rmtrslv = r.rmtrslv]

\* Socks4Names gone wrong: the bound port is unpacked little-endian.
Socks4NamesLittleEndian(v, resp) ==
  [v EXCEPT !.sockname = Name(PyStr(inet_ntoa(SubSeq(resp, 5, 8))),
                              PyInt(UnpackH(<<resp[4], resp[3]>>))),
            !.peername = Name(PyStr(inet_ntoa(v.frame.ipaddr)), v.frame.destport)]

\* Lines 349-354: the addresses a successful SOCKS4 negotiation records.
\* "rmtrslv != None" holds for True and for False, so the else branch
\* (the destination as given) is never taken.
Socks4Names(v, resp) ==
  [v EXCEPT !.sockname = Name(PyStr(inet_ntoa(SubSeq(resp, 5, 8))),
                              PyInt(UnpackH(SubSeq(resp, 3, 4)))),
            !.peername = Name(PyStr(inet_ntoa(v.frame.ipaddr)), v.frame.destport)]

\* Socks4Reply gone wrong: the status byte is not looked at.
Socks4ReplyAnyStatus(v, script) ==
  LET r == recvall(Stream(v.rcv, script), 8)
      v1 == Read(v, PROXY_TYPE_SOCKS4, r.data, r.st)
  IN CASE r.res = "blocked" -> Blocked(v)
       [] r.res = "short" -> Raise(v1, "GeneralProxyError", 0)
       [] r.res = "ok" /\ r.data[1] # 0 -> Raise(Close(v1), "GeneralProxyError", 1)
       [] OTHER -> [Socks4Names(v1, r.data) EXCEPT !.pc = "loop"]

\* Lines 335-354.
Socks4Reply(v, script) ==
  LET r == recvall(Stream(v.rcv, script), 8)
      v1 == Read(v, PROXY_TYPE_SOCKS4, r.data, r.st)
  IN CASE r.res = "blocked" -> Blocked(v)
       [] r.res = "short" -> Raise(v1, "GeneralProxyError", 0)
       [] r.res = "ok" /\ r.data[1] # 0 -> Raise(Close(v1), "GeneralProxyError", 1)
       [] r.res = "ok" /\ r.data[1] = 0 /\ r.data[2] # 90 ->
            Raise(Close(v1), "Socks4Error",
                  IF r.data[2] \in {91, 92, 93} THEN r.data[2] ELSE 94)
       [] OTHER -> [Socks4Names(v1, r.data) EXCEPT !.pc = "loop"]

(***************************************************************************)
(* __negotiatehttp (lines 356-387).                                        *)
(***************************************************************************)
\* The request (lines 361-367): the bytes, the addr local, whether the
\* resolver was called, or the exception.
HttpRequest(destaddr, destport, proxy) ==
  LET g == gethostbyname(destaddr.v)
      addr == IF proxy.rdns THEN destaddr.v ELSE g.a
      none == [ok |-> FALSE, cls |-> "", dns |-> ~proxy.rdns, data |-> <<>>,
               addr |-> <<>>]
  IN IF destaddr.t # "str" THEN [none EXCEPT !.cls = "TypeError", !.dns = FALSE]
     ELSE IF ~proxy.rdns /\ ~g.ok THEN [none EXCEPT !.cls = "socket.gaierror"]
     ELSE [none EXCEPT !.ok = TRUE, !.addr = addr,
                       !.data = TxtConnect \o addr \o <<Colon>> \o StrOf(destport)
                                \o TxtHttp11Line \o TxtHost \o destaddr.v
                                \o CRLFCRLF]

\* Lines 361-367: entry of the negotiator, up to its first read.
HttpBegin(v) ==
  LET f == v.frame
      r == HttpRequest(f.destaddr, f.destport, f.proxy)
      v1 == IF r.dns THEN Log(v, EvDns(PROXY_TYPE_HTTP, f.destaddr.v)) ELSE v
  IN IF ~r.ok THEN Raise(v1, r.cls, 0)
     ELSE [Log(v1, EvSend(PROXY_TYPE_HTTP, "req", r.data))
             EXCEPT !.pc = "http_reply", !.frame.addr = r.addr]

\* resp.find(pat) != -1
Contains(resp, pat) ==
  \E i \in 1..(Len(resp) - Len(pat) + 1) : SubSeq(resp, i, i + Len(pat) - 1) = pat

\* Lines 369-371: one byte at a time until resp holds "\r\n\r\n".  recv
\* returns "" for ever once the peer has closed, so the loop never ends.
RECURSIVE HttpReadHeader(_, _)
HttpReadHeader(st, resp) ==
  IF Contains(resp, CRLFCRLF) THEN [res |-> "ok", data |-> resp, st |-> st]
  ELSE LET r == recv(st, 1) IN
    IF r.blocked THEN [res |-> "blocked", data |-> resp, st |-> st]
    ELSE IF r.data = <<>> THEN [res |-> "spin", data |-> resp, st |-> r.st]
    ELSE HttpReadHeader(r.st, resp \o r.data)

\* resp.splitlines()[0]: the text before the first line break.
FirstLine(resp) ==
  LET ends == {i \in 1..Len(resp) : resp[i] \in {CR, LF}}
  IN IF ends = {} THEN resp
     ELSE SubSeq(resp, 1, (CHOOSE i \in ends : \A j \in ends : i <= j) - 1)

\* Lines 374-387.
HttpStatus(v, resp) ==
  LET statusline == SplitMax(FirstLine(resp), Space, 2)
      code == DecVal(statusline[2])
  IN IF statusline[1] \notin {TxtHttp10, TxtHttp11}
       THEN Raise(Close(v), "GeneralProxyError", 1)
     ELSE IF Len(statusline) < 2 THEN Raise(v, "IndexError", 0)
     ELSE IF ~AllDigits(statusline[2]) THEN Raise(Close(v), "GeneralProxyError", 1)
     ELSE IF code # 200 THEN
       IF Len(statusline) < 3 THEN Raise(Close(v), "IndexError", 0)
       ELSE RaiseMsg(Close(v), "HTTPError", code, statusline[3])
     ELSE [v EXCEPT !.sockname = Name(PyStr(HostAny), PyInt(0)),
                    !.peername = Name(PyStr(v.frame.addr), v.frame.destport),
                    !.pc = "loop"]

\* Lines 369-387.
HttpReply(v, script) ==
  LET r == HttpReadHeader(Stream(v.rcv, script), <<>>)
      v1 == Read(v, PROXY_TYPE_HTTP, r.data, r.st)
  IN CASE r.res = "blocked" -> Blocked(v)
       [] r.res = "spin" -> [v1 EXCEPT !.pc = "spin"]
       [] OTHER -> HttpStatus(v1, r.data)

(***************************************************************************)
(* socksocket.connect (lines 389-430).                                     *)
(***************************************************************************)
\* The input check of lines 397-399 passes.
CheckInput(d) == d.shape = "tuple2" /\ d.host.t = "str" /\ d.port.t = "int"

\* CheckTypes gone wrong: the chain is not looked at before connecting.
CheckTypesSkipped(proxies) == TRUE

\* The proxy type check of lines 402-404 passes.
CheckTypes(proxies) ==
  \A i \in 1..Len(proxies) :
    TypeOrNone(proxies[i].type) \in DOMAIN PROXY_DEFAULTS

\* Lines 396-409: the checks, then the chain with the destination appended.
ConnectBegin(v, d, proxies) ==
  IF ~CheckInput(d) THEN Raise(v, "GeneralProxyError", 5)
  ELSE IF ~CheckTypes(proxies) THEN Raise(v, "GeneralProxyError", 4)
  ELSE [v EXCEPT !.pc = "loop",
                 !.frame = [NoFrame EXCEPT
                              !.chain = proxies \o <<Sentinel(d.host, d.port)>>,
                              !.first = TRUE]]

\* Lines 412-415.
PortNum(proxy) ==
  IF proxy.port.t # "none" THEN proxy.port
  ELSE PyInt(PROXY_DEFAULTS[TypeOrNone(proxy.type)])

\* NextHop gone wrong: every negotiator is told to reach the destination.
NextHopFinal(chain) ==
  [host |-> chain[Len(chain)].host, port |-> chain[Len(chain)].port]

\* Line 422: the address the negotiator is told to reach, chain being what
\* is left after the pop.
NextHop(chain) == [host |-> chain[1].host, port |-> chain[1].port]

\* Lines 417-419: the TCP connection to the first entry of the chain.
TcpConnect(v, host, portnum, tcpok) ==
  LET v1 == Log(v, EvTcp(host, portnum))
  IN IF ~PackH(portnum).ok THEN Raise(v1, "OverflowError", 0)
     ELSE IF ~tcpok THEN Raise(v1, "socket.error", 0)
     ELSE [v1 EXCEPT !.sock = "connected", !.frame.first = FALSE]

\* Lines 421-430: the negotiator of the popped entry is called for nexthop.
Dispatch(v, proxy, nexthop) ==
  LET v1 == [v EXCEPT !.frame.destaddr = nexthop.host,
                      !.frame.destport = nexthop.port,
                      !.frame.ipset = FALSE, !.frame.ipaddr = <<>>,
                      !.frame.rmtrslv = FALSE, !.frame.addr = <<>>]
      called(k) == Log(v1, EvNeg(k, nexthop.host, nexthop.port, proxy.rdns))
  IN CASE proxy.type = PyInt(PROXY_TYPE_SOCKS5) ->
            Socks5Begin(called(PROXY_TYPE_SOCKS5))
       [] proxy.type = PyInt(PROXY_TYPE_SOCKS4) ->
            Socks4Begin(called(PROXY_TYPE_SOCKS4))
       [] proxy.type = PyInt(PROXY_TYPE_HTTP) ->
            HttpBegin(called(PROXY_TYPE_HTTP))
       [] OTHER -> Raise(v, "GeneralProxyError", 4)

\* One turn of the while loop (lines 410-430), up to the negotiator's first
\* read, or the end of connect() when the popped entry is the last.
LoopTurn(v, tcpok) ==
  LET proxy == Head(v.frame.chain)
      rest == Tail(v.frame.chain)
      v1 == [v EXCEPT !.frame.chain = rest, !.frame.proxy = proxy]
      v2 == IF v.frame.first
              THEN TcpConnect(v1, proxy.host, PortNum(proxy), tcpok)
              ELSE v1
  IN IF v2.pc = "raised" THEN v2
     ELSE IF rest = <<>> THEN [v2 EXCEPT !.pc = "done"]
     ELSE Dispatch(v2, proxy, NextHop(rest))

(***************************************************************************)
(* What the peer answers.                                                  *)
(***************************************************************************)
Whole(bytes) == Script(<<bytes>>, FALSE)
Cut(bytes) == Script(IF bytes = <<>> THEN <<>> ELSE <<bytes>>, TRUE)

MethodReplies ==
  { Whole(<<5, 0>>), Script(<< <<5>>, <<2>> >>, FALSE), Whole(<<5, 255>>),
    Whole(<<5, 1>>), Whole(<<4, 0>>), Cut(<<5>>) }

AuthReplies == { Whole(<<1, 0>>), Whole(<<1, 1>>), Whole(<<5, 0>>), Cut(<<1>>) }

ConnectReplies ==
  { Whole(<<5, 0, 0, 1, 127, 0, 0, 1, 4, 56>>),
    Whole(<<5, 0, 0, 3, 1, 120, 4, 56>>),
    Whole(<<5, 0, 0, 4>>),
    Whole(<<5, 5, 0, 1>>),
    Whole(<<5, 9, 0, 1>>),
    Whole(<<5, 10, 0, 1, 0, 0, 0, 0, 0, 0>>),
    Whole(<<4, 5, 0, 1>>),
    Whole(<<4, 0, 0, 1>>),
    Cut(<<5, 0, 0, 1, 127>>),
    Cut(<<5, 0, 0, 3>>) }

Socks4Replies ==
  { Whole(<<0, 90, 4, 56, 127, 0, 0, 1>>),
    Whole(<<0, 91, 0, 0, 0, 0, 0, 0>>),
    Whole(<<0, 94, 0, 0, 0, 0, 0, 0>>),
    Whole(<<0, 95, 0, 0, 0, 0, 0, 0>>),
    Whole(<<1, 90, 4, 56, 127, 0, 0, 1>>),
    Cut(<<0, 90, 4>>) }

\* The answers of SpecShared: granted, rejected.
SharedReplies ==
  { Whole(<<0, 90, 4, 56, 127, 0, 0, 1>>), Whole(<<0, 91, 0, 0, 0, 0, 0, 0>>) }

HttpReplies ==
  { Whole(TxtHttp11 \o <<32, 50, 48, 48, 32, 79, 75>> \o CRLFCRLF),  \* 200 OK
    Whole(TxtHttp10 \o <<32, 52, 48, 55, 32, 78, 111>> \o CRLFCRLF), \* 407 No
    Whole(TxtHttp11 \o <<32, 52, 48, 55>> \o CRLFCRLF),              \* 407
    Whole(<<73, 67, 89, 32, 50, 48, 48, 32, 79, 75>> \o CRLFCRLF),   \* ICY 200 OK
    Whole(TxtHttp11 \o <<32, 50, 120, 48, 32, 79, 75>> \o CRLFCRLF), \* 2x0 OK
    Whole(TxtHttp11 \o CRLFCRLF),
    Cut(TxtHttp11 \o <<32, 50, 48, 48, 32, 79, 75, 13, 10>>) }

(***************************************************************************)
(* The steps of a socket's thread.                                         *)
(***************************************************************************)
connect(s, d) ==
  /\ pc[s] = "idle"
  /\ dest' = [dest EXCEPT ![s] = d]
  /\ Becomes(s, ConnectBegin(View(s), d, heap[proxyref[s]]))
  /\ UNCHANGED <<call, defaultproxy, heap, proxyref>>

connect_loop(s, tcpok) ==
  /\ pc[s] = "loop"
  /\ Becomes(s, LoopTurn(View(s), tcpok))
  /\ UNCHANGED <<call, defaultproxy, heap, proxyref, dest>>

negotiatesocks5_method(s, replies) ==
  /\ pc[s] = "s5_method"
  /\ \E script \in Offered(rcv[s], replies) :
       Becomes(s, Socks5Method(View(s), script))
  /\ UNCHANGED <<call, defaultproxy, heap, proxyref, dest>>

negotiatesocks5_auth(s, replies) ==
  /\ pc[s] = "s5_auth"
  /\ \E script \in Offered(rcv[s], replies) :
       Becomes(s, Socks5Auth(View(s), script))
  /\ UNCHANGED <<call, defaultproxy, heap, proxyref, dest>>

negotiatesocks5_reply(s, replies) ==
  /\ pc[s] = "s5_reply"
  /\ \E script \in Offered(rcv[s], replies) :
       Becomes(s, Socks5Reply(View(s), script))
  /\ UNCHANGED <<call, defaultproxy, heap, proxyref, dest>>

negotiatesocks4_reply(s, replies) ==
  /\ pc[s] = "s4_reply"
  /\ \E script \in Offered(rcv[s], replies) :
       Becomes(s, Socks4Reply(View(s), script))
  /\ UNCHANGED <<call, defaultproxy, heap, proxyref, dest>>

negotiatehttp_reply(s, replies) ==
  /\ pc[s] = "http_reply"
  /\ \E script \in Offered(rcv[s], replies) :
       Becomes(s, HttpReply(View(s), script))
  /\ UNCHANGED <<call, defaultproxy, heap, proxyref, dest>>

\* One socket: construction, setproxy calls, one connect().
Next ==
  \E s \in {1} :
    \/ Construct(s)
    \/ \E step \in Steps, append \in BOOLEAN : setproxy(s, step, append, MaxChain)
    \/ \E d \in Dests : connect(s, d)
    \/ \E tcpok \in BOOLEAN : connect_loop(s, tcpok)
    \/ negotiatesocks5_method(s, MethodReplies)
    \/ negotiatesocks5_auth(s, AuthReplies)
    \/ negotiatesocks5_reply(s, ConnectReplies)
    \/ negotiatesocks4_reply(s, Socks4Replies)
    \/ negotiatehttp_reply(s, HttpReplies)

Spec == Init /\ [][Next]_vars

\* Two sockets and the module's default proxy.
NextShared ==
  \/ \E step \in SharedSteps, append \in BOOLEAN :
       setdefaultproxy(step, append, MaxSharedChain)
  \/ \E s \in Socks :
       \/ Construct(s)
       \/ \E step \in SharedSteps, append \in BOOLEAN :
            setproxy(s, step, append, MaxSharedChain)
       \/ \E d \in SharedDests : connect(s, d)
       \/ connect_loop(s, TRUE)
       \/ negotiatesocks4_reply(s, SharedReplies)

SpecShared == Init /\ [][NextShared]_vars

(***************************************************************************)
(* __recvall (lines 157-167) followed recv by recv, for every count and    *)
(* every way the peer's bytes arrive.                                      *)
(***************************************************************************)
\* The bytes 1, 2, ..., n.
Bytes(n) == [i \in 1..n |-> i]

\* Every way of cutting bytes into non-empty chunks.
RECURSIVE Splits(_)
Splits(bytes) ==
  IF bytes = <<>> THEN {<<>>}
  ELSE UNION { { <<Take(bytes, k)>> \o rest : rest \in Splits(Drop(bytes, k)) } :
               k \in 1..Len(bytes) }

\* The peers of a call: what they send, in which chunks, and whether they
\* close after it.
Peers ==
  { [chunks |-> c, closed |-> e] :
      c \in UNION { Splits(Bytes(n)) : n \in 0..MaxSent }, e \in BOOLEAN }

InitRecv ==
  /\ Loaded
  /\ \E count \in 0..MaxCount, peer \in Peers :
       call = [NoCall EXCEPT !.pc = "first", !.count = count, !.peer = peer,
                             !.st = peer]

\* Line 162: data = self.recv(count), then the loop test of line 163.
recvall_first ==
  /\ call.pc = "first"
  /\ LET r == recv(call.st, call.count) IN
       /\ ~r.blocked
       /\ call' = [call EXCEPT !.asked = Append(@, <<call.count, 0>>),
                               !.data = r.data, !.st = r.st,
                               !.pc = IF Len(r.data) < call.count
                                        THEN "loop" ELSE "ok"]
  /\ UNCHANGED <<defaultproxy, heap, pc, proxyref, sockname, peername,
                 sockstate, dest, frame, err, trace, rcv>>

\* Lines 164-166: one turn of the loop, then the loop test of line 163.
recvall_more ==
  /\ call.pc = "loop"
  /\ LET k == Missing(call.count, call.data)
         r == recv(call.st, k)
     IN /\ ~r.blocked
        /\ call' =
             IF r.data = <<>>
               THEN [call EXCEPT !.asked = Append(@, <<k, Len(call.data)>>),
                                 !.st = r.st, !.pc = "short"]
               ELSE [call EXCEPT !.asked = Append(@, <<k, Len(call.data)>>),
                                 !.data = @ \o r.data, !.st = r.st,
                                 !.pc = IF Len(call.data \o r.data) < call.count
                                          THEN "loop" ELSE "ok"]
  /\ UNCHANGED <<defaultproxy, heap, pc, proxyref, sockname, peername,
                 sockstate, dest, frame, err, trace, rcv>>

NextRecv == recvall_first \/ recvall_more

SpecRecv == InitRecv /\ [][NextRecv]_vars

(***************************************************************************)
(* Vocabulary of the properties.                                           *)
(***************************************************************************)
\* The proxy chain of socket s (what connect() copies at line 406).
Chain(s) == IF proxyref[s] = 0 THEN <<>> ELSE heap[proxyref[s]]
DefaultChain == IF defaultproxy = 0 THEN <<>> ELSE heap[defaultproxy]

Called(s) == pc[s] \notin {"new", "idle"}
Negs(tr) == SelectSeq(tr, LAMBDA e : e.op = "neg")
Steered(tr) == SelectSeq(tr, LAMBDA e : e.op \in {"tcp", "neg"})
IsSend(e) == e.op \in {"offer", "auth", "req"}
\* The index of the last negotiator call at or before j (0 if none).
NegBefore(tr, j) ==
  LET before == {i \in 1..j : tr[i].op = "neg"}
  IN IF before = {} THEN 0 ELSE CHOOSE i \in before : \A k \in before : k <= i

IsName(host) == host.t = "str" /\ ~inet_aton(host.v).ok

\* The port a step is reached at: its own, or 1080 / 8080 by kind.
PortOrDefault(step) ==
  IF step.port.t # "none" THEN step.port
  ELSE IF step.type = PyInt(PROXY_TYPE_HTTP) THEN PyInt(8080)
  ELSE PyInt(1080)

ProxyErrors ==
  {"GeneralProxyError", "Socks5AuthError", "Socks5Error", "Socks4Error", "HTTPError"}

\* The reply with which a proxy of the kind accepts the CONNECT.
Accepts(kind, data) ==
  CASE kind = PROXY_TYPE_SOCKS5 ->
         Len(data) >= 10 - 2 /\ data[1] = 5 /\ data[2] = 0 /\ data[4] \in {1, 3}
    [] kind = PROXY_TYPE_SOCKS4 -> Len(data) = 8 /\ data[1] = 0 /\ data[2] = 90
    [] kind = PROXY_TYPE_HTTP ->
         /\ Contains(data, CRLFCRLF)
         /\ \E ver \in {TxtHttp10, TxtHttp11} :
              Take(data, Len(ver) + 4) = ver \o <<32, 50, 48, 48>>
    [] OTHER -> FALSE

\* The first bytes of a request say whose protocol it speaks.
Speaks(kind, data) ==
  CASE kind = PROXY_TYPE_SOCKS5 -> Take(data, 3) = <<5, 1, 0>>
    [] kind = PROXY_TYPE_SOCKS4 -> Take(data, 2) = <<4, 1>>
    [] kind = PROXY_TYPE_HTTP -> Take(data, Len(TxtConnect)) = TxtConnect
    [] OTHER -> FALSE

(***************************************************************************)
(* C1.  A successful connect() through a chain of n >= 1 proxies does, in  *)
(* this order and nothing else: one TCP connect to the first proxy, then   *)
(* for i = 1..n one negotiation in proxy i's protocol whose target is the  *)
(* (host, port) stored for proxy i+1, the last one targeting the           *)
(* destination.  Only the last negotiation targets the destination.        *)
(***************************************************************************)
ExpectedSteering(proxies, d) ==
  LET n == Len(proxies)
      target(i) == IF i < n THEN proxies[i + 1] ELSE Sentinel(d.host, d.port)
  IN <<EvTcp(proxies[1].host, PortOrDefault(proxies[1]))>> \o
     [i \in 1..n |-> EvNeg(IntOf(proxies[i].type), target(i).host,
                           target(i).port, proxies[i].rdns)]

C1_ChainOrdering ==
  \A s \in Socks :
    pc[s] = "done" /\ Chain(s) # <<>> =>
      /\ Steered(trace[s]) = ExpectedSteering(Chain(s), dest[s])
      /\ \A j \in 1..Len(trace[s]) :
           trace[s][j].op = "req" =>
             LET n == NegBefore(trace[s], j)
             IN n > 0 /\ Speaks(trace[s][n].kind, trace[s][j].data)
      /\ \A k \in 1..(Len(Chain(s)) - 1) :
           LET e == Negs(trace[s])[k]
           IN <<e.host, e.port>> # <<dest[s].host, dest[s].port>>

C1_Witness ==
  /\ pc[1] = "done"
  /\ Len(Chain(1)) = 3
  /\ Cardinality({Chain(1)[i].type : i \in 1..3}) = 3

(***************************************************************************)
(* C2.  Within one connect(), the negotiation with proxy i+1 starts, and   *)
(* any byte of it is sent, only right after proxy i's negotiator has read  *)
(* a reply that accepts the CONNECT; the k-th negotiation is with the k-th *)
(* proxy of the chain, so none is attempted twice, and after an error no   *)
(* later hop is negotiated.                                                *)
(***************************************************************************)
C2_HopAfterAccept ==
  \A s \in Socks :
    LET tr == trace[s] IN
      /\ \A j \in 1..Len(tr) :
           /\ IsSend(tr[j]) => NegBefore(tr, j) > 0
           /\ tr[j].op = "neg" =>
                LET p == NegBefore(tr, j - 1)
                IN IF p = 0 THEN j = 2 /\ tr[1].op = "tcp"
                   ELSE /\ tr[j - 1].op = "recv"
                        /\ tr[j - 1].kind = tr[p].kind
                        /\ Accepts(tr[p].kind, tr[j - 1].data)
      /\ Len(Negs(tr)) <= Len(Chain(s))
      /\ \A k \in 1..Len(Negs(tr)) : PyInt(Negs(tr)[k].kind) = Chain(s)[k].type

C2_Witness ==
  /\ pc[1] = "raised"
  /\ err[1].cls = "Socks4Error"
  /\ Len(Negs(trace[1])) = 2
  /\ Len(Chain(1)) = 3

(***************************************************************************)
(* C3.  When connect() raises one of the proxy errors after the TCP        *)
(* connection to the first hop was opened, the underlying socket is closed *)
(* by the time the error reaches the caller.                               *)
(***************************************************************************)
C3_ClosedAfterError ==
  \A s \in Socks :
    pc[s] = "raised" /\ err[s].cls \in ProxyErrors /\ sockstate[s] # "fresh"
      => sockstate[s] = "closed"

(***************************************************************************)
(* C4.  After any error raised by connect(), getproxysockname() and        *)
(* getpeername() hold no address recorded during that connect, also when   *)
(* earlier hops of the chain had succeeded.                                *)
(***************************************************************************)
C4_NoNamesAfterError ==
  \A s \in Socks :
    pc[s] = "raised" => sockname[s] = NoName /\ peername[s] = NoName

(***************************************************************************)
(* C5.  When a negotiator has just returned successfully from a handshake  *)
(* toward a hostname, the peer it recorded is (resolved IPv4 literal,      *)
(* destport) if the name was resolved locally (rdns false) and (hostname,  *)
(* destport) if resolution was left to the proxy; SOCKS4A never records    *)
(* 0.0.0.1.                                                                *)
(***************************************************************************)
Returned(s) ==
  /\ pc[s] = "loop"
  /\ trace[s] # <<>>
  /\ trace[s][Len(trace[s])].op = "recv"

C5_PeerReporting ==
  \A s \in Socks :
    Returned(s) /\ IsName(frame[s].destaddr) =>
      /\ peername[s] =
           IF frame[s].proxy.rdns
             THEN Name(frame[s].destaddr, frame[s].destport)
             ELSE Name(PyStr(gethostbyname(frame[s].destaddr.v).a),
                       frame[s].destport)
      /\ peername[s].addr # PyStr(<<Zero, Dot, Zero, Dot, Zero, Dot, Zero + 1>>)

(***************************************************************************)
(* C6.  Every SOCKS5 CONNECT request sent for target (host, port) by a     *)
(* proxy step with remote_dns r has: atyp 0x01 and the literal's four      *)
(* bytes when host is an IPv4 literal, whatever r is; atyp 0x03, the       *)
(* length and the bytes of the name when host is a name and r is true,     *)
(* with no local resolution; atyp 0x01 and the locally resolved address    *)
(* when host is a name and r is false.  The resolver is called by a SOCKS5 *)
(* negotiation only for a name with r false.                               *)
(***************************************************************************)
C6_Atyp ==
  \A s \in Socks :
    LET tr == trace[s] IN
      \A j \in 1..Len(tr) :
        LET n == NegBefore(tr, j)
            host == tr[n].host
            rdns == tr[n].rdns
            data == tr[j].data
            resolved == \E i \in n..j : tr[i].op = "dns"
        IN /\ tr[j].op = "req" /\ tr[j].kind = PROXY_TYPE_SOCKS5 =>
                /\ n > 0
                /\ Take(data, 3) = <<5, 1, 0>>
                /\ ~IsName(host) =>
                     /\ data[4] = 1
                     /\ SubSeq(data, 5, 8) = inet_aton(host.v).b
                     /\ Len(data) = 10
                     /\ ~resolved
                /\ IsName(host) /\ rdns =>
                     /\ data[4] = 3
                     /\ data[5] = Len(host.v)
                     /\ SubSeq(data, 6, 5 + Len(host.v)) = host.v
                     /\ Len(data) = 7 + Len(host.v)
                     /\ ~resolved
                /\ IsName(host) /\ ~rdns =>
                     /\ data[4] = 1
                     /\ SubSeq(data, 5, 8) = inet_aton(gethostbyname(host.v).a).b
                     /\ Len(data) = 10
                     /\ resolved
           /\ tr[j].op = "dns" /\ tr[j].kind = PROXY_TYPE_SOCKS5 =>
                n > 0 /\ IsName(host) /\ ~rdns /\ tr[j].host = host

C6_Witness ==
  LET tr == trace[1] IN
    /\ \E j \in 1..Len(tr) :
         /\ tr[j].op = "req" /\ tr[j].kind = PROXY_TYPE_SOCKS5
         /\ tr[j].data[4] = 3
    /\ \E j \in 2..Len(tr) :
         /\ tr[j].op = "req" /\ tr[j].kind = PROXY_TYPE_SOCKS5
         /\ tr[j].data[4] = 1
         /\ tr[j - 1].op = "dns"

(***************************************************************************)
(* C7.  Every request the HTTP negotiator sends for target (host, port) is *)
(* exactly "CONNECT <addr>:<port> HTTP/1.1\r\nHost: <host>:<port>\r\n\r\n", *)
(* <addr> being host as given when remote_dns is true and the locally      *)
(* resolved address otherwise.                                             *)
(***************************************************************************)
C7_HttpRequestBytes ==
  \A s \in Socks :
    LET tr == trace[s] IN
      \A j \in 1..Len(tr) :
        tr[j].op = "req" /\ tr[j].kind = PROXY_TYPE_HTTP =>
          LET e == tr[NegBefore(tr, j)]
              addr == IF e.rdns THEN e.host.v ELSE gethostbyname(e.host.v).a
          IN tr[j].data =
               TxtConnect \o addr \o <<Colon>> \o StrOf(e.port) \o TxtHttp11Line
               \o TxtHost \o e.host.v \o <<Colon>> \o StrOf(e.port) \o CRLFCRLF

(***************************************************************************)
(* C8.  A proxy step without a port is addressed at the default port of    *)
(* its kind everywhere: in the TCP connect when it is the first hop, and   *)
(* as the target port of the preceding hop's negotiation when it is a      *)
(* later hop.                                                              *)
(***************************************************************************)
HasDefault(step) ==
  step.type \in {PyInt(PROXY_TYPE_SOCKS4), PyInt(PROXY_TYPE_SOCKS5),
                 PyInt(PROXY_TYPE_HTTP)}

C8_DefaultPortEverywhere ==
  \A s \in Socks :
    LET tr == trace[s] IN
      /\ \A j \in 1..Len(tr) :
           tr[j].op = "tcp" /\ Chain(s) # <<>> /\ HasDefault(Chain(s)[1])
             => tr[j].port = PortOrDefault(Chain(s)[1])
      /\ \A k \in 1..Len(Negs(tr)) :
           k < Len(Chain(s)) /\ HasDefault(Chain(s)[k + 1])
             => Negs(tr)[k].port = PortOrDefault(Chain(s)[k + 1])

(***************************************************************************)
(* C9 as stated.  connect() raises GeneralProxyError 5 or 4, before any    *)
(* TCP connection and before any byte is sent, whenever the destination    *)
(* host is not a non-empty string, the port is not an integer in           *)
(* 0..65535, or some step of the chain has an unrecognized kind.           *)
(***************************************************************************)
BadShape(d) == d.shape # "tuple2" \/ d.host.t # "str" \/ d.port.t # "int"

Recognized(step) ==
  step.type \in {PyNone} \cup
    {PyInt(k) : k \in {PROXY_TYPE_NONE, PROXY_TYPE_SOCKS4, PROXY_TYPE_SOCKS5,
                       PROXY_TYPE_HTTP}}

Refused(s, codes) ==
  /\ pc[s] = "raised"
  /\ err[s].cls = "GeneralProxyError"
  /\ err[s].code \in codes
  /\ trace[s] = <<>>
  /\ sockstate[s] = "fresh"

C9_AsStated ==
  \A s \in Socks :
    /\ Called(s)
    /\ \/ BadShape(dest[s])
       \/ dest[s].host.v = <<>>
       \/ IntOf(dest[s].port) \notin 0..65535
       \/ \E i \in 1..Len(Chain(s)) : ~Recognized(Chain(s)[i])
    => Refused(s, {4, 5})

(***************************************************************************)
(* C9 amended.  connect() raises GeneralProxyError 5 when the destination  *)
(* is not a pair of a string and an integer, and GeneralProxyError 4 when  *)
(* the destination passes that check and some step of the chain has an     *)
(* unrecognized kind; in both cases before any TCP connection is opened    *)
(* and before any byte is sent.                                            *)
(***************************************************************************)
C9_InputChecked ==
  \A s \in Socks :
    Called(s) =>
      /\ BadShape(dest[s]) => Refused(s, {5})
      /\ /\ ~BadShape(dest[s])
         /\ \E i \in 1..Len(Chain(s)) : ~Recognized(Chain(s)[i])
         => Refused(s, {4})

C9_Witness ==
  /\ Refused(1, {4})
  /\ ~BadShape(dest[1])
  /\ Len(Chain(1)) = 3
  /\ Recognized(Chain(1)[1])
  /\ ~Recognized(Chain(1)[3])

(***************************************************************************)
(* C10 as stated.  No process-wide state is held and sockets do not        *)
(* interact: an operation on one socket or a setdefaultproxy call never    *)
(* changes the chain, bound or peer of another socket, and the chain of a  *)
(* socket depends on nothing shared, so a newly constructed socket has     *)
(* the empty chain whatever was done before.                               *)
(***************************************************************************)
\* One operation of SpecShared on socket s.
OnSocket(s) ==
  \/ Construct(s)
  \/ \E step \in SharedSteps, append \in BOOLEAN :
       setproxy(s, step, append, MaxSharedChain)
  \/ \E d \in SharedDests : connect(s, d)
  \/ connect_loop(s, TRUE)
  \/ negotiatesocks4_reply(s, SharedReplies)

OnDefault ==
  \E step \in SharedSteps, append \in BOOLEAN :
    setdefaultproxy(step, append, MaxSharedChain)

Untouched(t) ==
  /\ Chain(t)' = Chain(t)
  /\ sockname'[t] = sockname[t]
  /\ peername'[t] = peername[t]

Isolated ==
  /\ OnDefault => \A t \in Socks : Untouched(t)
  /\ \A s \in Socks : OnSocket(s) => \A t \in Socks \ {s} : Untouched(t)

C10_AsStated ==
  [][/\ Isolated
     /\ \A s \in Socks : Construct(s) => Chain(s)' = <<>>]_vars

(***************************************************************************)
(* C10 amended.  Sockets do not interact: an operation on one socket or a  *)
(* setdefaultproxy call never changes the chain, bound or peer of another  *)
(* socket.  The module holds one process-wide state, the default chain: a  *)
(* socket's chain is a copy of it taken at construction, and changes only  *)
(* by setproxy on that socket afterwards.                                  *)
(***************************************************************************)
C10_NoInteraction ==
  [][/\ Isolated
     /\ \A s \in Socks :
          /\ Construct(s) => Chain(s)' = DefaultChain
          /\ Chain(s)' # Chain(s) =>
               \/ Construct(s)
               \/ \E step \in SharedSteps, append \in BOOLEAN :
                    setproxy(s, step, append, MaxSharedChain)]_vars

C10_Witness ==
  /\ pc[1] = "done" /\ pc[2] = "done"
  /\ DefaultChain # <<>>
  /\ Len(Chain(1)) = 2 /\ Len(Chain(2)) = 2
  /\ Chain(1) # Chain(2)
  /\ Chain(1) # DefaultChain /\ Chain(2) # DefaultChain
  /\ peername[1].set /\ peername[2].set

(***************************************************************************)
(* C11.  A setproxy call with append on a non-empty chain adds exactly the *)
(* given step at the end and keeps the earlier steps in order; a call      *)
(* without append, or on an empty chain, leaves exactly the given step.    *)
(* connect() negotiates with the proxies in the order of the chain: the    *)
(* TCP connection goes to its first step and the k-th negotiation is the   *)
(* k-th step's.                                                            *)
(***************************************************************************)
TraversesInOrder(s) ==
  LET tr == trace[s] IN
    /\ \A j \in 1..Len(tr) :
         tr[j].op = "tcp" /\ Chain(s) # <<>> => tr[j].host = Chain(s)[1].host
    /\ Len(Negs(tr)) <= Len(Chain(s))
    /\ \A k \in 1..Len(Negs(tr)) :
         /\ PyInt(Negs(tr)[k].kind) = Chain(s)[k].type
         /\ Negs(tr)[k].rdns = Chain(s)[k].rdns
         /\ k > 1 => Negs(tr)[k - 1].host = Chain(s)[k].host
    /\ pc[s] = "done" => Len(Negs(tr)) = Len(Chain(s))

C11_SetproxyAppends ==
  /\ [][\A s \in Socks : \A step \in Steps, append \in BOOLEAN :
          setproxy(s, step, append, MaxChain) =>
            Chain(s)' = IF append /\ Chain(s) # <<>>
                          THEN Append(Chain(s), step)
                          ELSE <<step>>]_vars
  /\ [](\A s \in Socks : TraversesInOrder(s))

C11_Witness ==
  /\ pc[1] = "done"
  /\ Len(Chain(1)) = 3
  /\ Chain(1)[1].type = Chain(1)[3].type
  /\ Chain(1)[1] # Chain(1)[3]

(***************************************************************************)
(* Vocabulary of the negotiations: the events of one negotiator call.      *)
(***************************************************************************)
\* The index of the last event of the negotiation that starts at n.
SegEnd(tr, n) ==
  LET later == {i \in (n + 1)..Len(tr) : tr[i].op = "neg"}
  IN IF later = {} THEN Len(tr)
     ELSE (CHOOSE i \in later : \A k \in later : i <= k) - 1

SegOps(tr, n) == [i \in 1..(SegEnd(tr, n) - n + 1) |-> tr[n + i - 1].op]

IsPrefix(a, b) == Len(a) <= Len(b) /\ a = SubSeq(b, 1, Len(a))

\* The number of the proxy whose negotiation starts at n.
HopOf(tr, n) == Cardinality({i \in 1..n : tr[i].op = "neg"})

\* A complete accepting SOCKS5 connect reply.
WholeReply5(data) ==
  /\ Len(data) >= 4
  /\ data[1] = 5 /\ data[2] = 0
  /\ \/ data[4] = 1 /\ Len(data) = 10
     \/ data[4] = 3 /\ Len(data) >= 5 /\ Len(data) = 7 + data[5]

(***************************************************************************)
(* C12.  Every SOCKS5 negotiation goes MethodOffer, MethodSelect,          *)
(* optional UserPassAuth, ConnectRequest, ConnectReply, Done in this       *)
(* order without skipping or repeating: the offer is 05 02 00 02 when the  *)
(* step has both user and password and 05 01 00 otherwise; the CONNECT     *)
(* request is sent only after the method reply 05 00, or after method      *)
(* reply 05 02 and auth reply 01 00; bound and peer are recorded only when *)
(* the complete connect reply has been read.                               *)
(***************************************************************************)
Socks5Orders ==
  { <<"neg", "offer", "recv">> \o auth \o dns \o <<"req", "recv">> :
      auth \in {<<>>, <<"auth", "recv">>}, dns \in {<<>>, <<"dns">>} }

Socks5InOrder(s) ==
  LET tr == trace[s] IN
    \A n \in 1..Len(tr) :
      tr[n].op = "neg" /\ tr[n].kind = PROXY_TYPE_SOCKS5 =>
        LET ops == SegOps(tr, n)
            step == Chain(s)[HopOf(tr, n)]
            withauth == Len(ops) >= 4 /\ ops[4] = "auth"
        IN /\ \E o \in Socks5Orders : IsPrefix(ops, o)
           /\ Len(ops) >= 2 =>
                tr[n + 1].data = IF step.user.t # "none" /\ step.pass.t # "none"
                                   THEN <<5, 2, 0, 2>> ELSE <<5, 1, 0>>
           /\ withauth => tr[n + 2].data = <<5, 2>>
           /\ \A i \in 1..Len(ops) :
                ops[i] = "req" =>
                  IF withauth THEN tr[n + 4].data = <<1, 0>>
                  ELSE tr[n + 2].data = <<5, 0>>

C12_Socks5StateOrder ==
  /\ [](\A s \in Socks : Socks5InOrder(s))
  /\ [][\A s \in Socks :
          sockname'[s] # sockname[s] \/ peername'[s] # peername[s] =>
            LET tr == trace'[s]
                n == NegBefore(tr, Len(tr))
            IN /\ n > 0
               /\ tr[n].kind = PROXY_TYPE_SOCKS5 =>
                    /\ tr[Len(tr)].op = "recv"
                    /\ tr[Len(tr) - 1].op = "req"
                    /\ WholeReply5(tr[Len(tr)].data)]_vars

C12_Witness ==
  LET tr == trace[1] IN
    /\ pc[1] = "done"
    /\ \E n \in 1..Len(tr) :
         /\ tr[n].op = "neg" /\ tr[n].kind = PROXY_TYPE_SOCKS5
         /\ SegOps(tr, n) = <<"neg", "offer", "recv", "auth", "recv", "req", "recv">>
    /\ \E n \in 1..Len(tr) :
         /\ tr[n].op = "neg" /\ tr[n].kind = PROXY_TYPE_SOCKS5
         /\ SegOps(tr, n) = <<"neg", "offer", "recv", "dns", "req", "recv">>

\* connect() has raised cls with one of the codes, the negotiation that
\* starts at n having ended with its event number last.
FailedAt(s, n, last, cls, codes) ==
  /\ pc[s] = "raised"
  /\ err[s].cls = cls
  /\ err[s].code \in codes
  /\ Len(trace[s]) = n + last - 1

(***************************************************************************)
(* C13.  For every 2-byte method reply (version, chosen) of a SOCKS5       *)
(* negotiation: version other than 5 fails with GeneralProxyError;         *)
(* otherwise chosen 0 goes on to the CONNECT request with no credentials   *)
(* sent, chosen 2 goes on to UserPassAuth, chosen 0xFF fails with          *)
(* Socks5AuthError code 2, every other value fails with GeneralProxyError  *)
(* code 1; after a failure no CONNECT request is sent.                     *)
(***************************************************************************)
C13_MethodSelect ==
  \A s \in Socks :
    LET tr == trace[s] IN
      \A n \in 1..Len(tr) :
        /\ tr[n].op = "neg" /\ tr[n].kind = PROXY_TYPE_SOCKS5
        /\ Len(SegOps(tr, n)) >= 3
        /\ Len(tr[n + 2].data) = 2
        => LET d == tr[n + 2].data
               ops == SegOps(tr, n)
           IN /\ d[1] # 5 => FailedAt(s, n, 3, "GeneralProxyError", {1})
              /\ d[1] = 5 /\ d[2] = 0 /\ Len(ops) > 3 => ops[4] \in {"dns", "req"}
              /\ d[1] = 5 /\ d[2] = 2 /\ Len(ops) > 3 => ops[4] = "auth"
              /\ d[1] = 5 /\ d[2] = 255 =>
                   FailedAt(s, n, 3, "Socks5AuthError", {2})
              /\ d[1] = 5 /\ d[2] \notin {0, 2, 255} =>
                   FailedAt(s, n, 3, "GeneralProxyError", {1})

(***************************************************************************)
(* C14.  In UserPassAuth the client sends 01, len(user), user, len(pass),  *)
(* pass and reads 2 bytes (ver, status).  ver other than 1 fails with      *)
(* GeneralProxyError; ver 1 with status other than 0 fails with            *)
(* Socks5AuthError code 3; in both cases the socket is closed and no       *)
(* CONNECT request is sent.  Only 01 00 lets the negotiation go on to the  *)
(* CONNECT request.                                                        *)
(***************************************************************************)
C14_UserPassAuth ==
  \A s \in Socks :
    LET tr == trace[s] IN
      \A n \in 1..Len(tr) :
        /\ tr[n].op = "neg" /\ tr[n].kind = PROXY_TYPE_SOCKS5
        /\ Len(SegOps(tr, n)) >= 4
        /\ tr[n + 3].op = "auth"
        => LET step == Chain(s)[HopOf(tr, n)]
               ops == SegOps(tr, n)
               d == tr[n + 4].data
           IN /\ step.user.t = "str" /\ step.pass.t = "str"
              /\ tr[n + 3].data = <<1, Len(step.user.v)>> \o step.user.v
                                  \o <<Len(step.pass.v)>> \o step.pass.v
              /\ Len(ops) >= 5 =>
                   /\ ops[5] = "recv"
                   /\ Len(d) <= 2
                   /\ Len(d) = 2 /\ d[1] # 1 =>
                        /\ FailedAt(s, n, 5, "GeneralProxyError", {1})
                        /\ sockstate[s] = "closed"
                   /\ Len(d) = 2 /\ d[1] = 1 /\ d[2] # 0 =>
                        /\ FailedAt(s, n, 5, "Socks5AuthError", {3})
                        /\ sockstate[s] = "closed"
                   /\ (\E i \in 6..Len(ops) : ops[i] = "req") => d = <<1, 0>>
                   /\ d = <<1, 0>> /\ PackH(tr[n].port).ok /\ ~IsName(tr[n].host)
                        => Len(ops) >= 6 /\ ops[6] = "req"

C14_Witness ==
  LET tr == trace[1] IN
    /\ pc[1] = "raised"
    /\ err[1].cls = "Socks5AuthError"
    /\ err[1].code = 3
    /\ tr[Len(tr)].data = <<1, 1>>
    /\ Len(Negs(tr)) = 2

\* The index of the CONNECT request of the negotiation that starts at n
\* (0 if none was sent).
ReqOf(tr, n) ==
  LET reqs == {i \in n..SegEnd(tr, n) : tr[i].op = "req"}
  IN IF reqs = {} THEN 0 ELSE CHOOSE i \in reqs : TRUE

(***************************************************************************)
(* C15.  For every 4-byte header (ver, status, rsv, atyp) of a SOCKS5      *)
(* connect reply: ver other than 5 fails with GeneralProxyError, whatever  *)
(* the status; ver 5 with status in 1..8 fails with Socks5Error carrying   *)
(* that status, and with a status above 8 fails with Socks5Error code 9.   *)
(* On these failures nothing after the header is read.                     *)
(***************************************************************************)
C15_ConnectReplyErrors ==
  \A s \in Socks :
    LET tr == trace[s] IN
      \A n \in 1..Len(tr) :
        LET q == ReqOf(tr, n) IN
          /\ tr[n].op = "neg" /\ tr[n].kind = PROXY_TYPE_SOCKS5
          /\ q > 0 /\ SegEnd(tr, n) > q
          /\ Len(tr[q + 1].data) >= 4
          => LET d == tr[q + 1].data
                 last == q + 1 - n + 1
             IN /\ d[1] # 5 =>
                     FailedAt(s, n, last, "GeneralProxyError", {1}) /\ Len(d) = 4
                /\ d[1] = 5 /\ d[2] \in 1..8 =>
                     FailedAt(s, n, last, "Socks5Error", {d[2]}) /\ Len(d) = 4
                /\ d[1] = 5 /\ d[2] > 8 =>
                     FailedAt(s, n, last, "Socks5Error", {9}) /\ Len(d) = 4

C15_Witness ==
  /\ pc[1] = "raised"
  /\ err[1] = [cls |-> "Socks5Error", code |-> 9, msg |-> <<>>]
  /\ trace[1][Len(trace[1])].data = <<5, 10, 0, 1>>
  /\ Len(rcv[1].buf) = 6

(***************************************************************************)
(* C16.  On an accepting SOCKS5 connect reply (ver 5, status 0) the        *)
(* negotiator reads the 4 header bytes, then 4 address bytes for atyp 1    *)
(* or a length byte L and L bytes for atyp 3, then 2 port bytes, and       *)
(* nothing more; the peer closing inside any of these reads gives the      *)
(* GeneralProxyError of a short read (code 0); every other atyp fails      *)
(* with GeneralProxyError code 1.                                          *)
(***************************************************************************)
C16_ReplyConsumedExactly ==
  \A s \in Socks :
    LET tr == trace[s] IN
      \A n \in 1..Len(tr) :
        LET q == ReqOf(tr, n) IN
          /\ tr[n].op = "neg" /\ tr[n].kind = PROXY_TYPE_SOCKS5
          /\ q > 0 /\ SegEnd(tr, n) > q
          => LET d == tr[q + 1].data
                 last == q + 1 - n + 1
                 short == FailedAt(s, n, last, "GeneralProxyError", {0})
             IN /\ Len(d) < 4 => short
                /\ Len(d) >= 4 /\ d[1] = 5 /\ d[2] = 0 =>
                     IF d[4] \in {1, 3}
                       THEN WholeReply5(d) \/ short
                       ELSE FailedAt(s, n, last, "GeneralProxyError", {1})
                /\ pc[s] # "raised" \/ Len(tr) > q + 1 => WholeReply5(d)

(***************************************************************************)
(* C17.  The SOCKS4 negotiator reads exactly 8 reply bytes.  Byte 0 other  *)
(* than 0 fails with GeneralProxyError code 1; otherwise status 0x5A       *)
(* succeeds and records bound = (bytes 4..7 as dotted quad, bytes 2..3 as  *)
(* big-endian port); status 91, 92 or 93 fails with Socks4Error carrying   *)
(* that status; every other status fails with Socks4Error code 94          *)
(* (unknown error).  bound and peer are set only on success.               *)
(***************************************************************************)
C17_Socks4Reply ==
  [][\A s \in Socks :
       LET tr == trace'[s]
           n == NegBefore(tr, Len(tr))
           q == ReqOf(tr, n)
           d == tr[q + 1].data
           names == <<sockname'[s], peername'[s]>>
           granted == Len(d) = 8 /\ d[1] = 0 /\ d[2] = 90
           failed(cls, code) ==
             /\ pc'[s] = "raised"
             /\ err'[s].cls = cls /\ err'[s].code = code
             /\ names = <<sockname[s], peername[s]>>
       IN /\ trace'[s] # trace[s]
          /\ n > 0 /\ tr[n].kind = PROXY_TYPE_SOCKS4
          /\ q > 0 /\ Len(tr) = q + 1
          => /\ tr[q + 1].op = "recv"
             /\ Len(d) <= 8
             /\ Len(d) = 8 /\ d[1] # 0 => failed("GeneralProxyError", 1)
             /\ Len(d) = 8 /\ d[1] = 0 /\ d[2] \in {91, 92, 93} =>
                  failed("Socks4Error", d[2])
             /\ Len(d) = 8 /\ d[1] = 0 /\ d[2] \notin {90, 91, 92, 93} =>
                  failed("Socks4Error", 94)
             /\ granted =>
                  /\ pc'[s] = "loop"
                  /\ sockname'[s] =
                       Name(PyStr(inet_ntoa(<<d[5], d[6], d[7], d[8]>>)),
                            PyInt(d[3] * 256 + d[4]))
                  /\ peername'[s].set
             /\ ~granted => names = <<sockname[s], peername[s]>>]_vars

C17_Witness ==
  /\ pc[1] = "done"
  /\ Len(Chain(1)) = 1
  /\ Chain(1)[1].type = PyInt(PROXY_TYPE_SOCKS4)
  /\ sockname[1] = Name(PyStr(inet_ntoa(<<127, 0, 0, 1>>)), PyInt(1080))

(***************************************************************************)
(* C18.  When the peer closes before the HTTP response holds \r\n\r\n,    *)
(* the HTTP negotiator ends, raising GeneralProxyError code 0 (connection  *)
(* closed unexpectedly); it never goes on reading the closed connection.   *)
(***************************************************************************)
C18_HttpEofFails ==
  \A s \in Socks :
    LET tr == trace[s]
        n == NegBefore(tr, Len(tr))
    IN /\ n > 0 /\ tr[n].kind = PROXY_TYPE_HTTP
       /\ tr[Len(tr)].op = "recv"
       /\ ~Contains(tr[Len(tr)].data, CRLFCRLF)
       /\ rcv[s].closed
       => /\ pc[s] = "raised"
          /\ err[s].cls = "GeneralProxyError"
          /\ err[s].code = 0

(***************************************************************************)
(* C19.  For every HTTP response header ended by \r\n\r\n the negotiator  *)
(* ends in exactly one outcome, decided by the first line: a version other *)
(* than HTTP/1.0 and HTTP/1.1 gives GeneralProxyError; a missing or        *)
(* non-decimal status code gives GeneralProxyError; code 200 gives success *)
(* with bound ("0.0.0.0", 0) and peer (addr, destport); any other code     *)
(* gives HTTPError (code, reason), the reason being empty when the line    *)
(* has none.  No other kind of error escapes.                              *)
(***************************************************************************)
C19_HttpStatusLine ==
  [][\A s \in Socks :
       LET tr == trace'[s]
           n == NegBefore(tr, Len(tr))
           d == tr[Len(tr)].data
           parts == SplitMax(FirstLine(d), Space, 2)
           okver == parts[1] \in {TxtHttp10, TxtHttp11}
           hascode == Len(parts) >= 2 /\ AllDigits(parts[2])
           invalid ==
             /\ pc'[s] = "raised"
             /\ err'[s].cls = "GeneralProxyError" /\ err'[s].code = 1
       IN /\ trace'[s] # trace[s]
          /\ n > 0 /\ tr[n].kind = PROXY_TYPE_HTTP
          /\ tr[Len(tr)].op = "recv"
          /\ Contains(d, CRLFCRLF)
          => /\ ~okver => invalid
             /\ okver /\ ~hascode => invalid
             /\ okver /\ hascode /\ DecVal(parts[2]) = 200 =>
                  /\ pc'[s] = "loop"
                  /\ sockname'[s] = Name(PyStr(HostAny), PyInt(0))
                  /\ peername'[s] =
                       Name(PyStr(IF tr[n].rdns THEN tr[n].host.v
                                  ELSE gethostbyname(tr[n].host.v).a),
                            tr[n].port)
             /\ okver /\ hascode /\ DecVal(parts[2]) # 200 =>
                  /\ pc'[s] = "raised"
                  /\ err'[s] =
                       [cls |-> "HTTPError", code |-> DecVal(parts[2]),
                        msg |-> IF Len(parts) >= 3 THEN parts[3] ELSE <<>>]]_vars

(***************************************************************************)
(* C20.  For every count n >= 0 and every way the peer's bytes arrive in   *)
(* chunks, __recvall returns exactly n bytes, the first n the peer sent in *)
(* order, or raises the short-read error when the peer closes before n     *)
(* bytes have arrived; no recv asks for more than the bytes still missing; *)
(* it ends in both cases (at most n + 1 recv calls, and it is never stuck  *)
(* while bytes or the close are there to read) and never returns fewer     *)
(* than n bytes.                                                           *)
(***************************************************************************)
C20_RecvAll ==
  LET sent == Flatten(call.peer.chunks)
      whole == recvall(call.peer, call.count)
  IN call.pc # "off" =>
       /\ \A i \in 1..Len(call.asked) :
            call.asked[i][1] <= call.count - call.asked[i][2]
       /\ Len(call.asked) <= call.count + 1
       /\ Len(call.data) <= call.count
       /\ call.data = Take(sent, Len(call.data))
       /\ call.pc = "ok" =>
            /\ Len(call.data) = call.count
            /\ call.data = Take(sent, call.count)
            /\ Flatten(call.st.chunks) = Drop(sent, call.count)
            /\ whole.res = "ok" /\ whole.data = call.data
       /\ call.pc = "short" =>
            /\ call.peer.closed
            /\ Len(sent) < call.count
            /\ whole.res = "short"
       /\ call.pc \in {"first", "loop"} =>
            /\ Len(call.data) < call.count \/ call.pc = "first"
            /\ call.st.chunks # <<>> \/ call.st.closed \/ call.count = 0
                 => ENABLED NextRecv
       /\ call.peer.closed /\ Len(sent) < call.count => call.pc # "ok"

C20_Witness ==
  /\ call.pc = "ok"
  /\ call.count = 3
  /\ Len(call.asked) = 3
  /\ Len(Flatten(call.st.chunks)) = 1

(***************************************************************************)
(* C21.  A SOCKS5 negotiation sends a user/password message only if its    *)
(* offer held method 2.  When it offered only method 0 (05 01 00: user or  *)
(* password absent) and the method reply is 05 02, connect() raises        *)
(* GeneralProxyError or Socks5AuthError with the socket closed, and        *)
(* nothing is sent after the offer.                                        *)
(***************************************************************************)
C21_AuthOnlyIfOffered ==
  \A s \in Socks :
    LET tr == trace[s] IN
      \A n \in 1..Len(tr) :
        tr[n].op = "neg" /\ tr[n].kind = PROXY_TYPE_SOCKS5 =>
          LET ops == SegOps(tr, n) IN
            /\ (\E i \in 1..Len(ops) : ops[i] = "auth") =>
                 tr[n + 1].data = <<5, 2, 0, 2>>
            /\ /\ Len(ops) >= 3
               /\ tr[n + 1].data = <<5, 1, 0>>
               /\ tr[n + 2].data = <<5, 2>>
               => /\ pc[s] = "raised"
                  /\ err[s].cls \in {"GeneralProxyError", "Socks5AuthError"}
                  /\ sockstate[s] = "closed"
                  /\ Len(tr) = n + 2

====
